---- MODULE Spec2Model ----
(***************************************************************************)
(* Model of fvalue.FormattedValue (src/fvalue/fvalue.py): a validated      *)
(* record (value, error, error_significant_figures,                        *)
(* leading_zeroes_threshold, rounding), its setters, rounded_data,         *)
(* formatted and __str__.                                                  *)
(*                                                                         *)
(* A decimal.Decimal is the record [sign, digits, exp] of its as_tuple():  *)
(* sign 0/1, the coefficient's digits most significant first (<<0>> for a  *)
(* zero), and the decimal exponent.  The coefficient is a digit sequence   *)
(* so that the precision of the decimal context (28 digits) is the real    *)
(* one.  A Python str is the sequence of its characters.                   *)
(***************************************************************************)
EXTENDS Integers, Sequences, FiniteSets, TLC

\* ------------------------------------------------------------ bounds
\* error_significant_figures ranges over 1..MaxSigFigs.
MaxSigFigs == 2
\* leading_zeroes_threshold ranges over 0..MaxThreshold.
MaxThreshold == 2

\* ------------------------------------------------ program constants
\* Precision of the default decimal context (decimal.getcontext().prec).
Prec == 28
\* Digits after the point that "%E" prints (its default precision).
EPrecision == 6

\* ---------------------------------------------------- digit sequences
Max(a, b) == IF a >= b THEN a ELSE b
Min(a, b) == IF a <= b THEN a ELSE b

Zeros(n) == [i \in 1..n |-> 0]

RECURSIVE Strip(_)
\* A coefficient without its leading zeros (a zero keeps one digit).
Strip(ds) ==
    IF Len(ds) > 1 /\ ds[1] = 0 THEN Strip(Tail(ds)) ELSE
    IF ds = <<>> THEN <<0>> ELSE ds

AllZero(ds) == \A i \in 1..Len(ds) : ds[i] = 0

RECURSIVE ToDigits(_)
\* The digits of a natural number.
ToDigits(n) ==
    IF n < 10 THEN <<n>> ELSE Append(ToDigits(n \div 10), n % 10)

\* The one element of a singleton set.  Only({e(x) : x \in {v}}) is e(v)
\* with v computed once, the way a local variable holds a value.
Only(S) == CHOOSE r \in S : TRUE

\* The coefficient plus one: the trailing nines become zeros and the digit
\* before them goes up.
Incr(ds) ==
    IF \A i \in 1..Len(ds) : ds[i] = 9 THEN <<1>> \o Zeros(Len(ds))
    ELSE LET j == CHOOSE j \in 1..Len(ds) :
                      ds[j] # 9 /\ \A i \in (j + 1)..Len(ds) : ds[i] = 9
         IN [i \in 1..Len(ds) |->
                IF i < j THEN ds[i] ELSE IF i = j THEN ds[i] + 1 ELSE 0]

RECURSIVE MulCarry(_, _, _, _)
\* ds[1..i] * k + carry, digit by digit from the right.
MulCarry(ds, k, i, carry) ==
    IF i = 0 THEN (IF carry = 0 THEN <<>> ELSE ToDigits(carry))
    ELSE LET p == ds[i] * k + carry
         IN Append(MulCarry(ds, k, i - 1, p \div 10), p % 10)

MulDigits(ds, k) == Strip(MulCarry(ds, k, Len(ds), 0))

\* ------------------------------------------------------------ Decimal
Dec(s, ds, e) == [sign |-> s, digits |-> ds, exp |-> e]
\* Decimal(n) or Decimal("n E e") for a small natural coefficient n.
D(n, e) == Dec(0, ToDigits(n), e)
Neg(d) == [d EXCEPT !.sign = 1 - @]

IsZero(d) == AllZero(d.digits)
IsNegative(d) == d.sign = 1 /\ ~IsZero(d)
\* Decimal.adjusted(): the exponent of the most significant digit.
Adjusted(d) == Len(d.digits) + d.exp - 1

RoundingModes ==
    {"ROUND_HALF_EVEN", "ROUND_05UP", "ROUND_CEILING", "ROUND_DOWN",
     "ROUND_FLOOR", "ROUND_HALF_DOWN", "ROUND_HALF_UP", "ROUND_UP"}

\* Whether a coefficient whose kept part ends in digit `last` and whose
\* discarded digits are `disc` is incremented under `mode`.
RoundsUp(mode, sign, last, disc) ==
    LET nonzero == ~AllZero(disc)
        first == IF disc = <<>> THEN 0 ELSE disc[1]
        rest == IF disc = <<>> THEN <<>> ELSE Tail(disc)
        above == first > 5 \/ (first = 5 /\ ~AllZero(rest))
        tie == first = 5 /\ AllZero(rest)
    IN CASE mode = "ROUND_DOWN" -> FALSE
         [] mode = "ROUND_UP" -> nonzero
         [] mode = "ROUND_HALF_UP" -> first >= 5
         [] mode = "ROUND_HALF_DOWN" -> above
         [] mode = "ROUND_HALF_EVEN" -> above \/ (tie /\ last % 2 = 1)
         [] mode = "ROUND_CEILING" -> sign = 0 /\ nonzero
         [] mode = "ROUND_FLOOR" -> sign = 1 /\ nonzero
         [] mode = "ROUND_05UP" -> nonzero /\ last \in {0, 5}

\* The coefficient ds with its last `drop` digits rounded away.
RoundDigits(ds, drop, sign, mode) ==
    LET padded == IF drop >= Len(ds) THEN Zeros(drop - Len(ds) + 1) \o ds
                  ELSE ds
        n == Len(padded)
        kept == SubSeq(padded, 1, n - drop)
        disc == SubSeq(padded, n - drop + 1, n)
    IN Strip(IF RoundsUp(mode, sign, kept[Len(kept)], disc)
             THEN Incr(kept) ELSE kept)

\* Decimal._rescale(q, mode): the same number at exponent q.
Rescale(d, q, mode) ==
    IF IsZero(d) THEN Dec(d.sign, <<0>>, q)
    ELSE IF q <= d.exp THEN Dec(d.sign, d.digits \o Zeros(d.exp - q), q)
    ELSE Dec(d.sign, RoundDigits(d.digits, q - d.exp, d.sign, mode), q)

\* A raised exception, as a call's outcome.
Raise(exc) == [raise |-> exc]
IsException(r) == "raise" \in DOMAIN r

\* Decimal.quantize(Decimal with exponent q, rounding=mode): InvalidOperation
\* when the result needs more than Prec digits.
Quantize(d, q, mode) ==
    IF IsZero(d) THEN Dec(d.sign, <<0>>, q)
    ELSE IF Adjusted(d) - q + 1 > Prec THEN Raise("InvalidOperation")
    ELSE LET ans == Rescale(d, q, mode)
         IN IF Len(ans.digits) > Prec THEN Raise("InvalidOperation") ELSE ans

\* The context's rounding of a result to Prec digits (ROUND_HALF_EVEN).
Fix(d) ==
    IF Len(d.digits) <= Prec THEN d
    ELSE LET drop == Len(d.digits) - Prec
             r == RoundDigits(d.digits, drop, d.sign, "ROUND_HALF_EVEN")
         IN IF Len(r) > Prec
            THEN Dec(d.sign, SubSeq(r, 1, Prec), d.exp + drop + 1)
            ELSE Dec(d.sign, r, d.exp + drop)

\* A multiplier argument: None, or a number with a small coefficient (an int,
\* or a float that is a short decimal such as 0.5).
None == [kind |-> "None"]
Number(n, e) == [kind |-> "number", sign |-> 0, coef |-> n, exp |-> e]

\* d * Decimal(m) for a number m.
Multiply(d, m) ==
    Only({Fix(Dec((d.sign + m.sign) % 2, product, d.exp + m.exp)) :
          product \in {MulDigits(d.digits, m.coef)}})

\* Decimal.scaleb(n).
ScaleB(d, n) == Fix([d EXCEPT !.exp = @ + n])

\* ------------------------------------------ float formatting ("%g", "%E")
\* Decimal digits a double resolves: a decimal that differs from a rounding
\* midpoint only beyond them converts to a double on either side of it.
FloatDigits == 17

RECURSIVE StripRight(_)
StripRight(ds) ==
    IF Len(ds) > 1 /\ ds[Len(ds)] = 0
    THEN StripRight(SubSeq(ds, 1, Len(ds) - 1)) ELSE ds

RECURSIVE Doubled(_, _)
\* ds * 2^k.
Doubled(ds, k) == IF k = 0 THEN ds ELSE Doubled(MulDigits(ds, 2), k - 1)

\* Whether float(d) = d: the coefficient is short and d is a multiple of a
\* power of two (5^-exp divides the coefficient).
BinaryExact(d) ==
    /\ Len(d.digits) <= 15
    /\ \/ d.exp >= 0
       \/ LET p == Doubled(d.digits, -d.exp)
          IN /\ Len(p) > -d.exp
             /\ AllZero(SubSeq(p, Len(p) + d.exp + 1, Len(p)))

\* float(d) > d, for the decimals d that sit on a rounding midpoint and are
\* no binary fraction: the side of d its nearest double lies on, as CPython's
\* float(Decimal) gives it.  Keyed by the coefficient without trailing zeros
\* and the exponent of its last digit.
FloatAbove(d) ==
    LET c == StripRight(d.digits)
        e == d.exp + Len(d.digits) - Len(c)
        k == <<c, e>>
    IN CASE k \in {<<<<9, 5>>, -3>>, <<<<9, 5>>, -6>>, <<<<9, 5>>, -7>>,
                   <<<<9, 9, 5>>, -4>>, <<<<9, 9, 5>>, -5>>,
                   <<<<9, 9, 9, 5>>, -4>>, <<<<9, 9, 9, 5>>, -2>>} -> TRUE
         [] k \in {<<<<9, 5>>, -2>>, <<<<9, 5>>, -4>>, <<<<9, 5>>, -5>>,
                   <<<<9, 9, 5>>, -3>>, <<<<9, 9, 5>>, -2>>,
                   <<<<9, 9, 9, 5>>, -5>>, <<<<9, 9, 9, 5>>, -3>>} -> FALSE

\* Whether formatting float(d) with n significant digits rounds the n-th
\* digit up (round-half-even on the double's exact value).
FloatRoundsUp(d, n) ==
    LET kept == SubSeq(d.digits, 1, n)
        disc == SubSeq(d.digits, n + 1, Len(d.digits))
        seen == SubSeq(disc, 2, Min(Len(disc), FloatDigits - n))
    IN IF disc[1] > 5 \/ (disc[1] = 5 /\ ~AllZero(seen)) THEN TRUE
       ELSE IF disc[1] < 5 THEN FALSE
       ELSE IF AllZero(Tail(disc)) /\ BinaryExact(d) THEN kept[n] % 2 = 1
       ELSE FloatAbove(d)

\* The decimal exponent of float(d) written with n significant digits: the
\* E of "%.{n-1}E" % d.  A zero prints with exponent 0.
FloatExponent(d, n) ==
    IF IsZero(d) THEN 0
    ELSE IF Len(d.digits) <= n THEN Adjusted(d)
    ELSE IF SubSeq(d.digits, 1, n) = [i \in 1..n |-> 9] /\ FloatRoundsUp(d, n)
         THEN Adjusted(d) + 1
    ELSE Adjusted(d)

\* The exponent of Decimal("%#.{n}g" % d): "#" keeps the trailing zeros, so
\* the literal has n significant digits in either of %g's two layouts.
SignificantFormatExponent(d, n) == FloatExponent(d, n) - (n - 1)

\* ------------------------------------------------------ RoundingOption
Member(mode) == [kind |-> "member", mode |-> mode]
RawValue(mode) == [kind |-> "str", mode |-> mode]
\* RoundingOption: its members.
RoundingOption == {Member(m) : m \in RoundingModes}
\* RoundingOption(rounding): the member for a member or for a member's
\* value; ValueError for anything else.
RoundingOptionCall(rounding) ==
    IF rounding.mode \in RoundingModes THEN Member(rounding.mode)
    ELSE Raise("ValueError")

\* -------------------------------------------------------- the pipeline
\* `multiplier if multiplier else ...`: None and 0 are falsy.
Truthy(multiplier) == multiplier.kind # "None" /\ multiplier.coef # 0

_rounded_error(self, multiplier) ==
    Only({LET target == SignificantFormatExponent(
                            error, self.error_significant_figures)
          IN IF self.rounding.kind # "member" THEN Raise("AttributeError")
             ELSE Quantize(error, target, self.rounding.mode) :
          error \in {IF Truthy(multiplier)
                     THEN Multiply(self.error, multiplier) ELSE self.error}})

\* A value rounded one decimal place finer than the error.
_rounded_value_extra_digit(self, rounded_error, multiplier) ==
    Only({IF self.rounding.kind # "member" THEN Raise("AttributeError")
          ELSE Quantize(value, rounded_error.exp - 1, self.rounding.mode) :
          value \in {IF Truthy(multiplier)
                     THEN Multiply(self.value, multiplier) ELSE self.value}})

_rounded_value(self, rounded_error, multiplier) ==
    Only({IF self.rounding.kind # "member" THEN Raise("AttributeError")
          ELSE Quantize(value, rounded_error.exp, self.rounding.mode) :
          value \in {IF Truthy(multiplier)
                     THEN Multiply(self.value, multiplier) ELSE self.value}})

_leading_zeroes(value) ==
    LET exponent == FloatExponent(value, EPrecision + 1)
    IN IF exponent >= 0 THEN 0 ELSE -exponent

\* rounded_data once its locals `error` and `value` hold their values.
RoundedTriple(self, error, value) ==
    LET minimum_leading_zeroes ==
            IF ~IsZero(error)
            THEN Min(_leading_zeroes(value), _leading_zeroes(error))
            ELSE _leading_zeroes(value)
        exponent0 ==
            IF minimum_leading_zeroes > self.leading_zeroes_threshold
            THEN minimum_leading_zeroes ELSE 0
        correction ==
            IF Adjusted(error) < self.error_significant_figures THEN 0
            ELSE Adjusted(error) - self.error_significant_figures + 1
        exponent == IF ~IsZero(error) THEN exponent0 - correction ELSE exponent0
    IN [value |-> ScaleB(value, exponent),
        error |-> ScaleB(error, exponent),
        exponent |-> -exponent]

rounded_data(self, multiplier) ==
    Only({IF IsException(error) THEN error
          ELSE Only({IF IsException(value) THEN value
                     ELSE RoundedTriple(self, error, value) :
                     value \in {IF IsZero(error)
                                THEN self.value   \* Decimal(self.value)
                                ELSE _rounded_value(self, error, multiplier)}}) :
          error \in {_rounded_error(self, multiplier)}})

\* ----------------------------------------------------------- strings
Chr(d) == <<"0", "1", "2", "3", "4", "5", "6", "7", "8", "9">>[d + 1]
DigitChars(ds) == [i \in 1..Len(ds) |-> Chr(ds[i])]

\* "{:f}".format(d): fixed-point notation, never an exponent.
FormatF(d) ==
    LET sign == IF d.sign = 1 THEN <<"-">> ELSE <<>>
        k == -d.exp
        padded == IF Len(d.digits) <= k
                  THEN Zeros(k + 1 - Len(d.digits)) \o d.digits ELSE d.digits
        n == Len(padded)
    IN IF d.exp >= 0
       THEN sign \o (IF IsZero(d) THEN <<"0">>
                     ELSE DigitChars(d.digits \o Zeros(d.exp)))
       ELSE sign \o DigitChars(SubSeq(padded, 1, n - k)) \o <<".">>
                 \o DigitChars(SubSeq(padded, n - k + 1, n))

\* "{:d}".format(n).
FormatD(n) ==
    IF n < 0 THEN <<"-">> \o DigitChars(ToDigits(-n))
    ELSE DigitChars(ToDigits(n))

\* The str " ± " and the str " x 10", character by character.
PlusMinus == <<" ", "±", " ">>
TimesTen == <<" ", "x", " ", "1", "0">>

\* A natural format without the special case for the exponent "1".
_natural_format_always_caret(value, error, exponent, units) ==
    IF exponent = <<"0">>
    THEN IF units # <<>>
         THEN <<"(">> \o value \o PlusMinus \o error \o <<")", " ">> \o units
         ELSE value \o PlusMinus \o error
    ELSE IF units # <<>>
         THEN <<"(">> \o value \o PlusMinus \o error \o <<")">> \o TimesTen
                  \o <<"^">> \o exponent \o <<" ">> \o units
         ELSE <<"(">> \o value \o PlusMinus \o error \o <<")">> \o TimesTen
                  \o <<"^">> \o exponent

_natural_format(value, error, exponent, units) ==
    IF exponent = <<"0">>
    THEN IF units # <<>>
         THEN <<"(">> \o value \o PlusMinus \o error \o <<")", " ">> \o units
         ELSE value \o PlusMinus \o error
    ELSE IF exponent = <<"1">>
    THEN IF units # <<>>
         THEN <<"(">> \o value \o PlusMinus \o error \o <<")">> \o TimesTen
                  \o <<" ">> \o units
         ELSE <<"(">> \o value \o PlusMinus \o error \o <<")">> \o TimesTen
    ELSE IF units # <<>>
         THEN <<"(">> \o value \o PlusMinus \o error \o <<")">> \o TimesTen
                  \o <<"^">> \o exponent \o <<" ">> \o units
         ELSE <<"(">> \o value \o PlusMinus \o error \o <<")">> \o TimesTen
                  \o <<"^">> \o exponent

\* A str template is the list of its literal pieces and "{n}" slots.
Lit(chars) == [lit |-> chars]
Slot(n) == [slot |-> n]
\* r"{0} \pm {1} e{2}"
SIUNITX_INNER_TEMPLATE ==
    <<Slot(0), Lit(<<" ", "\\", "p", "m", " ">>), Slot(1),
      Lit(<<" ", "e">>), Slot(2)>>
\* r"\SI{{" + SIUNITX_INNER_TEMPLATE + r"}}{{{3}}}"
SIUNITX_TEMPLATE ==
    <<Lit(<<"\\", "S", "I", "{">>)>> \o SIUNITX_INNER_TEMPLATE
        \o <<Lit(<<"}", "{">>), Slot(3), Lit(<<"}">>)>>
\* r"\num{{" + SIUNITX_INNER_TEMPLATE + r"}}"
SIUNITX_NUM_TEMPLATE ==
    <<Lit(<<"\\", "n", "u", "m", "{">>)>> \o SIUNITX_INNER_TEMPLATE
        \o <<Lit(<<"}">>)>>

\* A template argument: None, a str, or a callable.
StrTemplate(pattern) == [kind |-> "str", pattern |-> pattern]
NATURAL_TEMPLATE == [kind |-> "callable", fn |-> "_natural_format"]

RECURSIVE StrFormat(_, _)
\* template.format(*args).
StrFormat(pattern, args) ==
    IF pattern = <<>> THEN <<>>
    ELSE LET piece == Head(pattern)
         IN (IF "lit" \in DOMAIN piece THEN piece.lit
             ELSE args[piece.slot + 1]) \o StrFormat(Tail(pattern), args)

Str(chars) == [str |-> chars]

formatted(self, template, multiplier, units) ==
    LET chosen == IF template.kind = "None" \/
                     (template.kind = "str" /\ template.pattern = <<>>)
                  THEN StrTemplate(SIUNITX_TEMPLATE) ELSE template
    IN Only({IF IsException(data) THEN data
             ELSE Only({IF chosen.kind = "str"
                        THEN Str(StrFormat(chosen.pattern, args))
                        ELSE Str(_natural_format(args[1], args[2], args[3],
                                                 args[4])) :
                        args \in {<<FormatF(data.value), FormatF(data.error),
                                    FormatD(data.exponent), units>>}}) :
             data \in {rounded_data(self, multiplier)}})

__str__(self) == formatted(self, NATURAL_TEMPLATE, None, <<>>)

\* ------------------------------------------------------ argument sets
\* A Python argument that is no Decimal carries its type: an int, a float,
\* a str, or None.
IntArg(n) == [type |-> "int", v |-> n]
FloatArg(n) == [type |-> "float", v |-> n]
StrArg(name) == [type |-> "str", v |-> name]
NoneArg == [type |-> "NoneType"]
IsDecimal(a) == "digits" \in DOMAIN a

\* 1.00000000000000000000000000001: more digits than the context keeps.
LongValue == Dec(0, <<1>> \o Zeros(Prec) \o <<1>>, -(Prec + 1))

Values ==
    {D(1044, -2), Neg(D(4, -2)), D(99999996, -8), LongValue, D(10, -3),
     D(100, 0)}
Errors ==
    {D(0, 0), D(95, -2), D(96, -2), D(1, -3), D(1, -9), D(10, 0)}
ErrorArgs == Errors \cup {Neg(D(1, 0)), StrArg("Huh")}
SigFigArgs ==
    {IntArg(n) : n \in -1..MaxSigFigs} \cup {FloatArg(1), NoneArg}
ThresholdArgs ==
    {IntArg(n) : n \in -1..MaxThreshold} \cup {StrArg("Huh")}
RoundingArgs ==
    RoundingOption \cup {RawValue("ROUND_HALF_EVEN"), RawValue("ROUND_UP"),
                         RawValue("Invalid Rounding")}
Multipliers == {None, Number(0, 0), Number(1, 0), Number(10, 0), Number(5, -1)}
Templates ==
    {None, StrTemplate(SIUNITX_TEMPLATE), StrTemplate(SIUNITX_NUM_TEMPLATE),
     NATURAL_TEMPLATE}
FormattedMultipliers == {None, Number(10, 0)}
Units == {<<>>, <<"m">>}

\* ---------------------------------------------------------- the record
VARIABLES
    value, error, error_significant_figures, leading_zeroes_threshold,
    rounding,      \* the five fields (a placeholder while unassigned)
    assigned,      \* the fields the object has: those assigned so far
    constructed,   \* __init__ has returned: the caller holds the object
    call           \* the call in progress or just completed, and its outcome

vars ==
    <<value, error, error_significant_figures, leading_zeroes_threshold,
      rounding, assigned, constructed, call>>

\* Placeholders of a field that is not assigned yet.
Unset == [unset |-> TRUE]
UnsetInt == 0
FieldNames ==
    {"value", "error", "error_significant_figures",
     "leading_zeroes_threshold", "rounding"}
Returned == [return |-> "None"]
Idle == [op |-> "none"]

Self ==
    [value |-> value, error |-> error,
     error_significant_figures |-> error_significant_figures,
     leading_zeroes_threshold |-> leading_zeroes_threshold,
     rounding |-> rounding]

\* ------------------------------------------------------------- setters
\* Each setter gives its outcome and what the backing field holds after it.
\* A setter that stores its argument before it checks the sign.
error_setter_stores_first(old, arg) ==
    IF ~IsDecimal(arg) THEN [outcome |-> Raise("TypeError"), field |-> old]
    ELSE IF IsNegative(arg)
    THEN [outcome |-> Raise("ValueError"), field |-> arg]
    ELSE [outcome |-> Returned, field |-> arg]

error_setter(old, arg) ==
    IF ~IsDecimal(arg) THEN [outcome |-> Raise("TypeError"), field |-> old]
    ELSE IF IsNegative(arg)
    THEN [outcome |-> Raise("ValueError"), field |-> old]
    ELSE [outcome |-> Returned, field |-> arg]

error_significant_figures_setter(old, arg) ==
    IF arg.type # "int" THEN [outcome |-> Raise("TypeError"), field |-> old]
    ELSE IF arg.v < 1 THEN [outcome |-> Raise("ValueError"), field |-> old]
    ELSE [outcome |-> Returned, field |-> arg.v]

leading_zeroes_threshold_setter(old, arg) ==
    IF arg.type # "int" THEN [outcome |-> Raise("TypeError"), field |-> old]
    ELSE IF arg.v < 0 THEN [outcome |-> Raise("ValueError"), field |-> old]
    ELSE [outcome |-> Returned, field |-> arg.v]

rounding_setter(old, arg) ==
    LET option == RoundingOptionCall(arg)
    IN IF IsException(option) THEN [outcome |-> option, field |-> old]
       ELSE IF option \notin RoundingOption
       THEN [outcome |-> Raise("ValueError"), field |-> old]
       ELSE [outcome |-> Returned, field |-> arg]

\* A constructor that validates every argument before it assigns any field.
__init__validates_first(args) ==
    LET e == error_setter(Unset, args.error)
        n == error_significant_figures_setter(UnsetInt,
                                              args.error_significant_figures)
        t == leading_zeroes_threshold_setter(UnsetInt,
                                             args.leading_zeroes_threshold)
        r == rounding_setter(Unset, args.rounding)
        blank == [value |-> Unset, error |-> Unset,
                  error_significant_figures |-> UnsetInt,
                  leading_zeroes_threshold |-> UnsetInt, rounding |-> Unset]
        raised == \/ IsException(e.outcome) \/ IsException(n.outcome)
                  \/ IsException(t.outcome) \/ IsException(r.outcome)
    IN IF raised
       THEN [outcome |-> IF IsException(e.outcome) THEN e.outcome
                         ELSE IF IsException(n.outcome) THEN n.outcome
                         ELSE IF IsException(t.outcome) THEN t.outcome
                         ELSE r.outcome,
             self |-> blank, assigned |-> {}]
       ELSE [outcome |-> Returned,
             self |-> [value |-> args.value, error |-> e.field,
                       error_significant_figures |-> n.field,
                       leading_zeroes_threshold |-> t.field,
                       rounding |-> r.field],
             assigned |-> FieldNames]

\* __init__: the five assignments in order; the first setter that raises
\* ends it, and the later fields stay unassigned.
__init__(args) ==
    LET e == error_setter(Unset, args.error)
        n == error_significant_figures_setter(UnsetInt,
                                              args.error_significant_figures)
        t == leading_zeroes_threshold_setter(UnsetInt,
                                             args.leading_zeroes_threshold)
        r == rounding_setter(Unset, args.rounding)
        fresh == [value |-> args.value, error |-> Unset,
                  error_significant_figures |-> UnsetInt,
                  leading_zeroes_threshold |-> UnsetInt, rounding |-> Unset]
    IN IF IsException(e.outcome)
       THEN [outcome |-> e.outcome, self |-> fresh, assigned |-> {"value"}]
       ELSE IF IsException(n.outcome)
       THEN [outcome |-> n.outcome,
             self |-> [fresh EXCEPT !.error = e.field],
             assigned |-> {"value", "error"}]
       ELSE IF IsException(t.outcome)
       THEN [outcome |-> t.outcome,
             self |-> [fresh EXCEPT !.error = e.field,
                                    !.error_significant_figures = n.field],
             assigned |-> {"value", "error", "error_significant_figures"}]
       ELSE IF IsException(r.outcome)
       THEN [outcome |-> r.outcome,
             self |-> [fresh EXCEPT !.error = e.field,
                                    !.error_significant_figures = n.field,
                                    !.leading_zeroes_threshold = t.field],
             assigned |-> {"value", "error", "error_significant_figures",
                           "leading_zeroes_threshold"}]
       ELSE [outcome |-> Returned,
             self |-> [fresh EXCEPT !.error = e.field,
                                    !.error_significant_figures = n.field,
                                    !.leading_zeroes_threshold = t.field,
                                    !.rounding = r.field],
             assigned |-> FieldNames]

\* ------------------------------------------------------------- actions
Init ==
    /\ value = Unset /\ error = Unset /\ error_significant_figures = UnsetInt
    /\ leading_zeroes_threshold = UnsetInt /\ rounding = Unset
    /\ assigned = {}
    /\ constructed = FALSE
    /\ call = Idle

\* FormattedValue(value, error, error_significant_figures,
\*                leading_zeroes_threshold, rounding)
Construct ==
    /\ ~constructed /\ call = Idle
    /\ \E v \in Values, e \in ErrorArgs, n \in SigFigArgs,
          t \in ThresholdArgs, r \in RoundingArgs :
        \E res \in {__init__([value |-> v, error |-> e,
                               error_significant_figures |-> n,
                               leading_zeroes_threshold |-> t,
                               rounding |-> r])} :
           /\ value' = res.self.value
           /\ error' = res.self.error
           /\ error_significant_figures' = res.self.error_significant_figures
           /\ leading_zeroes_threshold' = res.self.leading_zeroes_threshold
           /\ rounding' = res.self.rounding
           /\ assigned' = res.assigned
           /\ constructed' = ~IsException(res.outcome)
           /\ call' = [op |-> "__init__",
                       args |-> [value |-> v, error |-> e,
                                 error_significant_figures |-> n,
                                 leading_zeroes_threshold |-> t,
                                 rounding |-> r],
                       outcome |-> res.outcome]

\* A constructor that raised hands no object to its caller: the partly
\* assigned object is dropped.
Discard ==
    /\ ~constructed /\ call # Idle
    /\ value' = Unset /\ error' = Unset /\ error_significant_figures' = UnsetInt
    /\ leading_zeroes_threshold' = UnsetInt /\ rounding' = Unset
    /\ assigned' = {}
    /\ call' = Idle
    /\ UNCHANGED constructed

\* self.value = v (a plain attribute).
SetValue ==
    /\ constructed /\ call = Idle
    /\ \E v \in Values :
        /\ value' = v
        /\ call' = [op |-> "value", arg |-> v, outcome |-> Returned]
    /\ UNCHANGED <<error, error_significant_figures, leading_zeroes_threshold,
                   rounding, assigned, constructed>>

SetError ==
    /\ constructed /\ call = Idle
    /\ \E a \in ErrorArgs :
        \E res \in {error_setter(error, a)} :
           /\ error' = res.field
           /\ call' = [op |-> "error", arg |-> a, outcome |-> res.outcome]
    /\ UNCHANGED <<value, error_significant_figures, leading_zeroes_threshold,
                   rounding, assigned, constructed>>

SetErrorSignificantFigures ==
    /\ constructed /\ call = Idle
    /\ \E a \in SigFigArgs :
        \E res \in {error_significant_figures_setter(error_significant_figures, a)} :
           /\ error_significant_figures' = res.field
           /\ call' = [op |-> "error_significant_figures", arg |-> a,
                       outcome |-> res.outcome]
    /\ UNCHANGED <<value, error, leading_zeroes_threshold, rounding, assigned,
                   constructed>>

SetLeadingZeroesThreshold ==
    /\ constructed /\ call = Idle
    /\ \E a \in ThresholdArgs :
        \E res \in {leading_zeroes_threshold_setter(leading_zeroes_threshold, a)} :
           /\ leading_zeroes_threshold' = res.field
           /\ call' = [op |-> "leading_zeroes_threshold", arg |-> a,
                       outcome |-> res.outcome]
    /\ UNCHANGED <<value, error, error_significant_figures, rounding, assigned,
                   constructed>>

SetRounding ==
    /\ constructed /\ call = Idle
    /\ \E a \in RoundingArgs :
        \E res \in {rounding_setter(rounding, a)} :
           /\ rounding' = res.field
           /\ call' = [op |-> "rounding", arg |-> a, outcome |-> res.outcome]
    /\ UNCHANGED <<value, error, error_significant_figures,
                   leading_zeroes_threshold, assigned, constructed>>

Fields ==
    <<value, error, error_significant_figures, leading_zeroes_threshold,
      rounding, assigned>>

RoundedData ==
    /\ constructed /\ call = Idle
    /\ \E m \in Multipliers :
        call' = [op |-> "rounded_data", multiplier |-> m,
                 outcome |-> rounded_data(Self, m)]
    /\ UNCHANGED <<Fields, constructed>>

Formatted ==
    /\ constructed /\ call = Idle
    /\ \E t \in Templates, m \in FormattedMultipliers, u \in Units :
        call' = [op |-> "formatted", template |-> t, multiplier |-> m,
                 units |-> u, outcome |-> formatted(Self, t, m, u)]
    /\ UNCHANGED <<Fields, constructed>>

ToStr ==
    /\ constructed /\ call = Idle
    /\ call' = [op |-> "__str__", outcome |-> __str__(Self)]
    /\ UNCHANGED <<Fields, constructed>>

\* The call is over: its caller has the result (or has caught the exception).
Return ==
    /\ constructed /\ call # Idle
    /\ call' = Idle
    /\ UNCHANGED <<Fields, constructed>>

Next ==
    \/ Construct \/ Discard
    \/ SetValue \/ SetError \/ SetErrorSignificantFigures
    \/ SetLeadingZeroesThreshold \/ SetRounding
    \/ RoundedData \/ Formatted \/ ToStr
    \/ Return

Spec == Init /\ [][Next]_vars

\* ====================================================== the claims
ReturnedFrom(op) == call.op = op /\ ~IsException(call.outcome)
RaisedFrom(op) == call.op = op /\ IsException(call.outcome)

\* The invariants of the four validated fields, as the specification
\* states them (error a number >= 0; significant figures an int >= 1;
\* threshold an int >= 0; rounding one of the 8 policies, given as a member
\* or by value).
ErrorInvalid(a) == ~IsDecimal(a) \/ (a.sign = 1 /\ ~AllZero(a.digits))
SigFigsInvalid(a) == a.type # "int" \/ a.v < 1
ThresholdInvalid(a) == a.type # "int" \/ a.v < 0
RoundingInvalid(a) == a.mode \notin RoundingModes
ArgInvalid(op, a) ==
    CASE op = "error" -> ErrorInvalid(a)
      [] op = "error_significant_figures" -> SigFigsInvalid(a)
      [] op = "leading_zeroes_threshold" -> ThresholdInvalid(a)
      [] op = "rounding" -> RoundingInvalid(a)
      [] OTHER -> FALSE

RecordValid ==
    /\ error.sign = 0 \/ AllZero(error.digits)
    /\ error_significant_figures >= 1
    /\ leading_zeroes_threshold >= 0

\* C1: a setter call whose argument violates its field's invariant raises
\* and leaves all five fields as they were, and every constructed record
\* satisfies error >= 0, error_significant_figures >= 1 and
\* leading_zeroes_threshold >= 0.
C1_SetterAtomic ==
    [][/\ (constructed /\ ArgInvalid(call'.op, IF "arg" \in DOMAIN call'
                                                THEN call'.arg ELSE Unset))
            => (IsException(call'.outcome) /\ Fields' = Fields)
       /\ constructed' => RecordValid']_vars

C1_Witness ==
    /\ constructed
    /\ RaisedFrom("error") /\ ErrorInvalid(call.arg)
    /\ error = D(95, -2)

\* The assignment order of __init__ after `value`.
InitOrder ==
    <<"error", "error_significant_figures", "leading_zeroes_threshold",
      "rounding">>
InitArgInvalid(args, i) == ArgInvalid(InitOrder[i], args[InitOrder[i]])
Assigned(name) == name \in assigned

\* C2 as stated: when the constructor raises, none of the five fields has
\* been assigned by that call.
C2_NothingCommitted ==
    RaisedFrom("__init__") =>
        \A name \in FieldNames : ~Assigned(name)

\* C2 amended: when the constructor raises, the invalid field and every
\* field after it in the assignment order are unassigned, while value and
\* the validated fields before the invalid one hold their arguments.
C2_PrefixCommitted ==
    RaisedFrom("__init__") =>
        \E k \in 1..Len(InitOrder) :
            /\ InitArgInvalid(call.args, k)
            /\ \A i \in 1..(k - 1) : ~InitArgInvalid(call.args, i)
            /\ Assigned("value") /\ value = call.args.value
            /\ \A i \in 1..(k - 1) : Assigned(InitOrder[i])
            /\ k > 1 => error = call.args.error
            /\ k > 2 => error_significant_figures
                            = call.args.error_significant_figures.v
            /\ k > 3 => leading_zeroes_threshold
                            = call.args.leading_zeroes_threshold.v
            /\ \A i \in k..Len(InitOrder) : ~Assigned(InitOrder[i])

C2_Witness ==
    /\ RaisedFrom("__init__")
    /\ ThresholdInvalid(call.args.leading_zeroes_threshold)
    /\ Assigned("value") /\ Assigned("error")
    /\ Assigned("error_significant_figures")
    /\ ~Assigned("leading_zeroes_threshold") /\ ~Assigned("rounding")

\* C3: on a constructed record, rounded_data and formatted return a result
\* and never raise.
C3_Total ==
    (constructed /\ call.op \in {"rounded_data", "formatted"})
        => ~IsException(call.outcome)

SignificantDigits(d) == IF IsZero(d) THEN 0 ELSE Len(d.digits)

\* C5: the rounded error is >= 0 and has at most error_significant_figures
\* significant digits.
C5_SignificantFigures ==
    (constructed /\ rounding \in RoundingOption) =>
        \A m \in Multipliers :
            LET rounded == _rounded_error(Self, m)
            IN ~IsException(rounded) =>
                /\ ~IsNegative(rounded)
                /\ SignificantDigits(rounded) <= error_significant_figures

\* a = b as numbers, whatever their exponents.
NumEqual(a, b) ==
    LET e == Min(a.exp, b.exp)
        ca == Strip(a.digits \o Zeros(a.exp - e))
        cb == Strip(b.digits \o Zeros(b.exp - e))
    IN ca = cb /\ (a.sign = b.sign \/ AllZero(ca))

\* C6: when the rounded error is zero, rounded_data(m) returns value * m
\* (times the display shift).
C6_ZeroErrorScaled ==
    (/\ ReturnedFrom("rounded_data") /\ Truthy(call.multiplier)
     /\ IsZero(call.outcome.error)) =>
        NumEqual(call.outcome.value,
                 ScaleB(Multiply(value, call.multiplier),
                        -call.outcome.exponent))

\* The leading-zero measure of the specification: max(0, -E) with
\* 10^E <= |x| < 10^(E+1); a zero has no leading zeros.
ZeroMeasure(d) == IF IsZero(d) THEN 0 ELSE Max(0, -Adjusted(d))
SpecShift(rounded_value, rounded_error, threshold, figures) ==
    LET base == IF ~IsZero(rounded_error)
                THEN Min(ZeroMeasure(rounded_value), ZeroMeasure(rounded_error))
                ELSE ZeroMeasure(rounded_value)
        shift == IF base > threshold THEN base ELSE 0
        d == Adjusted(rounded_error)
    IN IF ~IsZero(rounded_error) /\ d >= figures
       THEN shift - (d - figures + 1) ELSE shift

\* C7: the exponent rounded_data returns is -shift, shift computed from the
\* rounded value and the rounded error by the specification's formula.
C7_Exponent ==
    ReturnedFrom("rounded_data") =>
        LET shift == -call.outcome.exponent
            rounded_value == ScaleB(call.outcome.value, -shift)
            rounded_error == ScaleB(call.outcome.error, -shift)
        IN shift = SpecShift(rounded_value, rounded_error,
                             leading_zeroes_threshold,
                             error_significant_figures)

\* C8: rounding the rounded (value, error) pair again, with the same
\* significant figures and policy and no multiplier, reproduces it.
C8_Idempotent ==
    ReturnedFrom("rounded_data") =>
        LET shift == -call.outcome.exponent
            once == [Self EXCEPT
                        !.value = ScaleB(call.outcome.value, -shift),
                        !.error = ScaleB(call.outcome.error, -shift)]
            rounded_error == _rounded_error(once, None)
            rounded_value == IF IsZero(rounded_error) THEN once.value
                             ELSE _rounded_value(once, rounded_error, None)
        IN rounded_error = once.error /\ rounded_value = once.value

\* C9: rounded_data(multiplier=1) returns what rounded_data() returns.
C9_NeutralMultiplier ==
    (call.op = "rounded_data" /\ call.multiplier = Number(1, 0)) =>
        call.outcome = rounded_data(Self, None)

Contains(str, sub) ==
    \E i \in 1..(Len(str) - Len(sub) + 1) :
        SubSeq(str, i, i + Len(sub) - 1) = sub
\* What the natural-language layout is to be for the strings v, e, x, u.
NaturalLayoutOK(out, v, e, x, u) ==
    LET body == v \o <<" ", "±", " ">> \o e
        tail == IF u = <<>> THEN <<>> ELSE <<" ">> \o u
    IN /\ x = <<"0">> =>
            /\ ~Contains(out, <<"x", " ", "1", "0">>)
            /\ u = <<>> => out = body
            /\ u # <<>> => out = <<"(">> \o body \o <<")">> \o tail
       /\ x = <<"1">> =>
            /\ out = <<"(">> \o body \o <<")", " ", "x", " ", "1", "0">> \o tail
            /\ ~Contains(out, <<"^">>)
       /\ x \notin {<<"0">>, <<"1">>} =>
            out = <<"(">> \o body \o <<")", " ", "x", " ", "1", "0", "^">>
                      \o x \o tail

\* C10: the natural-language template picks its layout from the exponent
\* string alone ("0": no power-of-ten clause; "1": "x 10" without a caret;
\* otherwise "x 10^<exponent>"), and __str__ is the natural-language
\* rendering with no multiplier and empty units.
C10_NaturalLayout ==
    /\ (ReturnedFrom("formatted") /\ call.template = NATURAL_TEMPLATE) =>
           LET data == rounded_data(Self, call.multiplier)
           IN NaturalLayoutOK(call.outcome.str, FormatF(data.value),
                              FormatF(data.error), FormatD(data.exponent),
                              call.units)
    /\ ReturnedFrom("__str__") =>
           LET data == rounded_data(Self, None)
           IN NaturalLayoutOK(call.outcome.str, FormatF(data.value),
                              FormatF(data.error), FormatD(data.exponent),
                              <<>>)

C10_Witness ==
    /\ ReturnedFrom("__str__")
    /\ call.outcome.str =
           <<"(", "1", "0", " ", "±", " ", "1", ")", " ", "x", " ", "1", "0">>

====
